---- MODULE Spec2Model ----
(***************************************************************************)
(* Model of the payment-confirmation logic of cli/wallet.mjs: the wait     *)
(* loop of the `invoice` command and the single-shot `check-invoice`       *)
(* command, run against a quote store, a settlement engine whose redeem    *)
(* call fails with free-text messages, an external payer and a background  *)
(* watcher that may redeem the same quote.                                 *)
(*                                                                         *)
(* One action is one stretch of code between two `await`s: the other       *)
(* actors (payer, watcher) can act between any two of them.                *)
(***************************************************************************)
EXTENDS Integers, Sequences, FiniteSets, TLC

\* ------------------------------------------------------------------ bounds
MaxQuotes == 1          \* quotes the store can hold
MaxRuns == 2            \* consecutive CLI processes
MaxLatency == 1         \* longest collaborator call, in LatencyUnit steps
MaxSeedCalls == 2       \* seedGetter calls of one process

\* ------------------------------------------------- constants of the program
pollInterval == 5000
DefaultTimeoutMs == 300000
DefaultAmount == 1000
SeedLen == 64

\* ------------------------------------------------------------ message text
\* A message is the sequence of its characters, so that String.includes is
\* a real (case-sensitive) substring test.
P_already_issued == <<"a", "l", "r", "e", "a", "d", "y", " ", "i", "s", "s", "u", "e", "d">>
P_already_spent == <<"a", "l", "r", "e", "a", "d", "y", " ", "s", "p", "e", "n", "t">>
P_Tokens_already_minted == <<"T", "o", "k", "e", "n", "s", " ", "a", "l", "r", "e", "a", "d", "y", " ", "m", "i", "n", "t", "e", "d">>
P_PENDING == <<"P", "E", "N", "D", "I", "N", "G">>
P_not_paid == <<"n", "o", "t", " ", "p", "a", "i", "d">>
P_UNPAID == <<"U", "N", "P", "A", "I", "D">>
P_Quote_not_paid == <<"Q", "u", "o", "t", "e", " ", "n", "o", "t", " ", "p", "a", "i", "d">>
P_quote_not_paid == <<"q", "u", "o", "t", "e", " ", "n", "o", "t", " ", "p", "a", "i", "d">>

\* String.prototype.includes
Includes(s, p) ==
  \E i \in 0..(Len(s) - Len(p)) : SubSeq(s, i + 1, i + Len(p)) = p

\* ---------------------------------------------------------------- errors
\* A thrown value: `message` may be missing (undefined).
NoError == [thrown |-> FALSE, hasMessage |-> FALSE, message |-> <<>>]
Err(m) == [thrown |-> TRUE, hasMessage |-> TRUE, message |-> m]
ErrNoMessage == [thrown |-> TRUE, hasMessage |-> FALSE, message |-> <<>>]

\* const errorMsg = error.message || '';
ErrorMsg(e) == IF e.hasMessage /\ e.message # <<>> THEN e.message ELSE <<>>

M_QuoteNotPaid == <<"Q", "u", "o", "t", "e", " ", "n", "o", "t", " ", "p", "a", "i", "d">>
M_pending == <<"p", "e", "n", "d", "i", "n", "g">>
M_NotPaid == <<"N", "o", "t", " ", "P", "a", "i", "d">>
M_UNPAID == <<"U", "N", "P", "A", "I", "D">>
M_PENDING == <<"P", "E", "N", "D", "I", "N", "G">>
M_alreadyIssued == <<"a", "l", "r", "e", "a", "d", "y", " ", "i", "s", "s", "u", "e", "d">>
M_AlreadyIssued == <<"A", "l", "r", "e", "a", "d", "y", " ", "I", "s", "s", "u", "e", "d">>
M_alreadySpent == <<"a", "l", "r", "e", "a", "d", "y", " ", "s", "p", "e", "n", "t">>
M_TokensAlreadyMinted == <<"T", "o", "k", "e", "n", "s", " ", "a", "l", "r", "e", "a", "d", "y", " ", "m", "i", "n", "t", "e", "d">>
M_alreadyMinted == <<"a", "l", "r", "e", "a", "d", "y", " ", "m", "i", "n", "t", "e", "d">>
M_pendingAlreadyIssued == <<"P", "E", "N", "D", "I", "N", "G", ":", " ", "a", "l", "r", "e", "a", "d", "y", " ", "i", "s", "s", "u", "e", "d">>
M_networkError == <<"n", "e", "t", "w", "o", "r", "k", " ", "e", "r", "r", "o", "r">>

\* The messages a collaborator's error may carry.
Messages ==
  { M_QuoteNotPaid, M_PENDING, M_pending, M_NotPaid,
    M_alreadyIssued, M_AlreadyIssued, M_alreadySpent, M_TokensAlreadyMinted,
    M_alreadyMinted, M_pendingAlreadyIssued, M_networkError, <<>> }

Errors == { Err(m) : m \in Messages } \cup { ErrNoMessage }

\* The outcome of a collaborator call: it returns (Ok) or throws an error.
\* redeemMintQuote may fail with any of the messages; a state read fails
\* with one that the catch block takes for a pending signal or with one it
\* does not know; the message of a failing getAllMints or createMintQuote
\* is only printed.
Ok == NoError
Results == {Ok} \cup Errors
ReadResults == {Ok, Err(M_PENDING), Err(M_networkError)}
SetupResults == {Ok, Err(M_networkError)}

\* ------------------------------------------------- classification (Loop)
\* Variant: the "already issued" pattern is left out.
LoopIsDuplicate_NoIssued(errorMsg) ==
  \/ Includes(errorMsg, P_already_spent)
  \/ Includes(errorMsg, P_Tokens_already_minted)

\* wallet.mjs:130
LoopIsDuplicate(errorMsg) ==
  \/ Includes(errorMsg, P_already_issued)
  \/ Includes(errorMsg, P_already_spent)
  \/ Includes(errorMsg, P_Tokens_already_minted)

\* Variant: a message that is a duplicate signal is no pending signal.
LoopIsPending_Exclusive(errorMsg) ==
  /\ ~LoopIsDuplicate(errorMsg)
  /\ \/ Includes(errorMsg, P_PENDING)
     \/ Includes(errorMsg, P_not_paid)
     \/ Includes(errorMsg, P_UNPAID)

\* wallet.mjs:139-143
LoopIsPending(errorMsg) ==
  \/ Includes(errorMsg, P_PENDING)
  \/ Includes(errorMsg, P_not_paid)
  \/ Includes(errorMsg, P_UNPAID)
  \/ Includes(errorMsg, P_Quote_not_paid)
  \/ Includes(errorMsg, P_quote_not_paid)

\* ---------------------------------------- classification (check-invoice)
\* wallet.mjs:187
ManualIsDuplicate(errorMsg) ==
  \/ Includes(errorMsg, P_already_issued)
  \/ Includes(errorMsg, P_already_spent)

\* wallet.mjs:195-197
ManualIsPending(errorMsg) ==
  \/ Includes(errorMsg, P_PENDING)
  \/ Includes(errorMsg, P_not_paid)
  \/ Includes(errorMsg, P_UNPAID)

\* ------------------------------------------------------------ quote store
QuoteIds == 1..MaxQuotes
QuoteStates == {"NONE", "UNPAID", "PAID", "ISSUED"}   \* NONE: no such record
NoArg == -1

\* quote.request: the Lightning invoice of a quote, one per quote
RequestOf(id) == id

\* Variant: the engine mints for an unpaid quote as well.
CanMint_Unpaid(state) == state \in {"UNPAID", "PAID"}

\* coco.quotes.redeemMintQuote returns only for a paid quote ("this will
\* throw if not paid yet"); an issued quote is refused ("already issued").
CanMint(state) == state = "PAID"

\* Variant: the repository lags behind the engine, an issued quote still
\* reads PAID.
GetMintQuote_Stale(s, id) ==
  IF id \in DOMAIN s /\ s[id].state # "NONE"
    THEN [found |-> TRUE,
          state |-> IF s[id].state = "ISSUED" THEN "PAID" ELSE s[id].state]
    ELSE [found |-> FALSE, state |-> "NONE"]

\* coco.mintQuoteRepository.getMintQuote: the record, or null
GetMintQuote(s, id) ==
  IF id \in DOMAIN s /\ s[id].state # "NONE"
    THEN [found |-> TRUE, state |-> s[id].state]
    ELSE [found |-> FALSE, state |-> "NONE"]

\* Variant: the test compares with 'PAID' instead of 'ISSUED'.
IsIssued_Paid(localQuote) == localQuote.found /\ localQuote.state = "PAID"

\* localQuote && localQuote.state === 'ISSUED'
IsIssued(localQuote) == localQuote.found /\ localQuote.state = "ISSUED"

\* ------------------------------------------------------------- arguments
AmountArgs == {21}
TimeoutArgs == {3000, 7000}

\* parseInt(args[0]) || 1000
ParseAmount(a) == IF a = NoArg \/ a = 0 THEN DefaultAmount ELSE a

\* parseInt(args[2]) || 300000
ParseTimeout(a) == IF a = NoArg \/ a = 0 THEN DefaultTimeoutMs ELSE a

\* args[1] || (await coco.mint.getAllMints())[0]?.mintUrl  -- is it defined?
MintResolved(argMint, mints) == argMint \/ mints

\* Variant: the loop stops when a further poll interval would not fit.
LoopCondition_Fit(t, start, timeout) == t - start + pollInterval < timeout

\* Date.now() - startTime < timeoutMs
LoopCondition(t, start, timeout) == t - start < timeout

LatencyUnit == 1000
Latencies == { k * LatencyUnit : k \in 0..MaxLatency }

\* -------------------------------------------------------------- seed file
\* A file: whether it exists and, if so, its text as a sequence of characters.
NoFile == [exists |-> FALSE, text |-> <<>>]
File(t) == [exists |-> TRUE, text |-> t]

\* The old wallet directory, and the seed.txt in it.
NoDir == [exists |-> FALSE, seed |-> NoFile]
Dir(f) == [exists |-> TRUE, seed |-> f]

HexDigits ==
  <<"0", "1", "2", "3", "4", "5", "6", "7", "8", "9", "a", "b", "c", "d", "e", "f">>
UpperHexDigits == <<"A", "B", "C", "D", "E", "F">>

\* seed.toString('hex'): two lower-case digits for each byte
ToHex(bytes) ==
  [i \in 1..(2 * Len(bytes)) |->
     IF i % 2 = 1 THEN HexDigits[(bytes[(i + 1) \div 2] \div 16) + 1]
                  ELSE HexDigits[(bytes[i \div 2] % 16) + 1]]

\* The value of a hexadecimal digit of either case, -1 for another character.
HexValue(c) ==
  IF \E k \in 1..16 : HexDigits[k] = c
    THEN (CHOOSE k \in 1..16 : HexDigits[k] = c) - 1
    ELSE IF \E k \in 1..6 : UpperHexDigits[k] = c
      THEN (CHOOSE k \in 1..6 : UpperHexDigits[k] = c) + 9
      ELSE -1

\* Buffer.from(text, 'hex') decodes pairs of digits and stops before the
\* first pair that is not two hexadecimal digits; a last single character
\* is dropped.
ValidPairs(text) ==
  CHOOSE k \in 0..(Len(text) \div 2) :
    /\ \A j \in 1..k : HexValue(text[2 * j - 1]) >= 0 /\ HexValue(text[2 * j]) >= 0
    /\ k < Len(text) \div 2 =>
         (HexValue(text[2 * k + 1]) < 0 \/ HexValue(text[2 * k + 2]) < 0)

\* new Uint8Array(Buffer.from(readFileSync(SEED_FILE, 'utf8'), 'hex'))
FromHex(text) ==
  [j \in 1..ValidPairs(text) |->
     16 * HexValue(text[2 * j - 1]) + HexValue(text[2 * j])]

\* Variant: the file is never found.
SeedExists_Never(f) == FALSE

\* existsSync(SEED_FILE)
SeedExists(f) == f.exists

\* What randomBytes(64) may return: a few of the 64-byte strings.
SeedSamples == {0, 37, 255}
RandomSeeds == { [i \in 1..SeedLen |-> (b * i) % 256] : b \in SeedSamples }

\* A seed that an earlier run generated.
EarlierSeed == [i \in 1..SeedLen |-> (7 * i + 3) % 256]

\* The texts a seed.txt left by earlier runs or by the user may hold: what
\* seedGetter wrote, the same with a line feed at the end, upper-case and
\* foreign characters, nothing.
EarlierTexts ==
  { ToHex(EarlierSeed),
    ToHex(EarlierSeed) \o <<"\n">>,
    <<"A", "b", "0", "g", "1", "2">>,
    <<>> }

\* What a seedGetter call returned: nothing yet, or the bytes.
NoSeed == [some |-> FALSE, bytes |-> <<>>]
Seed(b) == [some |-> TRUE, bytes |-> b]

\*   runs: processes started; calls: seedGetter calls of the running process;
\*   writes: times seedGetter wrote seed.txt; writeRun: the run of the last
\*   write, 0 when there was none; returned: what the last call that
\*   returned gave back.
Log0 == [runs |-> 0, calls |-> 0, writes |-> 0, writeRun |-> 0, returned |-> NoSeed]

BootValues == {"idle", "migrate", "ensure", "ready", "dead"}

\* ------------------------------------------------------------------ state
VARIABLES
  store,      \* quote id -> [state, request, amount, minted]: the Quote
              \* Store (wallet.db) and how often tokens were minted for
              \* the quote
  hasMint,    \* coco.mint.getAllMints() is non-empty
  run,        \* number of CLI processes started so far
  command,    \* process.argv[2] of the running process
  args,       \* process.argv.slice(3): [amount, mint, timeout, quote]
  pc,         \* position of the running process
  quote,      \* quote.quote (invoice) or args[0] (check-invoice)
  timeoutMs,  \* invoice: const timeoutMs
  startTime,  \* invoice: const startTime
  now,        \* Date.now()
  paid,       \* invoice: let paid
  error,      \* the error caught or propagating, NoError when none
  printed,    \* what the command reported on the console
  exitCode,   \* process.exit status, -1 while running
  cleaned,    \* cleanup(): [called, disposed, dbClosed]
  h,          \* observations of the current run (history, not program state)
  walletDir,  \* ~/.cashu-wallet exists
  oldDir,     \* ~/.coco-wallet: [exists, seed], seed the seed.txt inside it
  seedFile,   \* ~/.cashu-wallet/seed.txt: [exists, text]
  boot,       \* position in the start-up code (wallet.mjs:11-46)
  seedLog     \* what seedGetter has done so far (history, not program state)

coreVars == <<store, hasMint, run, command, args, pc, quote, timeoutMs,
              startTime, now, paid, error, printed, exitCode, cleaned, h>>

fileVars == <<walletDir, oldDir, seedFile, boot, seedLog>>

vars == <<coreVars, fileVars>>

NoArgs == [amount |-> NoArg, mint |-> FALSE, timeout |-> NoArg, quote |-> NoArg]
NotCleaned == [called |-> FALSE, disposed |-> FALSE, dbClosed |-> FALSE]

\* What one run has done so far.
\*   reads, redeemCalls, sleeps: getMintQuote calls, redeemMintQuote calls
\*     and sleeps completed;
\*   firstRead, reRead: what the state read before the redeem call and the
\*     re-read after a duplicate signal returned in the current attempt
\*     ("none", "ISSUED", "other" or "threw");
\*   iterRedeems: redeem calls of the current attempt;
\*   caught: the error the attempt's catch block received;
\*   resolved: how the current attempt resolved (success, pending, fatal);
\*   redeemed: a redeemMintQuote call of this run returned without error;
\*   watcher: the Background Watcher redeemed this run's quote while the
\*     run was reading, redeeming or sleeping;
\*   startState: the state of the quote named by args[0] at process start;
\*   streak: how many check-invoice runs in a row, just before this one,
\*     reported success.
H0 ==
  [reads |-> 0, redeemCalls |-> 0, sleeps |-> 0, firstRead |-> "none",
   reRead |-> "none", iterRedeems |-> 0, caught |-> NoError,
   resolved |-> "none", redeemed |-> FALSE, watcher |-> FALSE,
   startState |-> "NONE", streak |-> 0]

PcValues ==
  {"idle", "main", "inv_create", "inv_while", "inv_read", "inv_redeem",
   "inv_reread", "inv_sleep", "inv_done", "chk_read", "chk_redeem",
   "chk_reread", "outer_catch", "cleanup_err", "cleanup_ok", "exited"}

\* Where a run is inside the wait loop or the single attempt.
AttemptPcs ==
  {"inv_while", "inv_read", "inv_redeem", "inv_reread", "inv_sleep",
   "chk_read", "chk_redeem", "chk_reread"}

TypeOK ==
  /\ store \in [QuoteIds -> [state : QuoteStates, request : Nat, amount : Nat,
                              minted : Nat]]
  /\ hasMint \in BOOLEAN
  /\ run \in 0..(MaxRuns + 1)
  /\ command \in {"none", "invoice", "check-invoice"}
  /\ pc \in PcValues
  /\ quote \in QuoteIds \cup {NoArg}
  /\ paid \in BOOLEAN
  /\ error.thrown \in BOOLEAN
  /\ exitCode \in {-1, 0, 1}
  /\ printed \in {"none", "paid", "timeout", "pending", "error", "usage", "nomint"}
  /\ walletDir \in BOOLEAN
  /\ oldDir.exists \in BOOLEAN
  /\ seedFile.exists \in BOOLEAN
  /\ seedFile.exists => walletDir
  /\ boot \in BootValues
  /\ seedLog.runs \in 0..MaxRuns
  /\ seedLog.calls \in 0..MaxSeedCalls

\* The wallet database outlives the processes: a run may find quotes of
\* earlier runs in any state, the issued ones minted once.  Quote ids are
\* handed out in order.
InitStores ==
  { s \in [QuoteIds -> [state : QuoteStates, request : QuoteIds,
                         amount : {DefaultAmount}, minted : {0, 1}]] :
      /\ \A i \in QuoteIds : \A j \in QuoteIds :
           (i < j /\ s[i].state = "NONE") => s[j].state = "NONE"
      /\ \A i \in QuoteIds :
           /\ s[i].request = RequestOf(i)
           /\ s[i].minted = IF s[i].state = "ISSUED" THEN 1 ELSE 0 }

InitCore ==
  /\ store \in InitStores
  /\ hasMint \in BOOLEAN
  /\ run = 0
  /\ command = "none"
  /\ args = NoArgs
  /\ pc = "idle"
  /\ quote = NoArg
  /\ timeoutMs = 0
  /\ startTime = 0
  /\ now = 0
  /\ paid = FALSE
  /\ error = NoError
  /\ printed = "none"
  /\ exitCode = -1
  /\ cleaned = NotCleaned
  /\ h = H0

\* The commands run in a process whose start-up is over: the wallet
\* directory and the seed file exist.
Init ==
  /\ InitCore
  /\ walletDir = TRUE
  /\ oldDir = NoDir
  /\ seedFile = File(ToHex(EarlierSeed))
  /\ boot = "ready"
  /\ seedLog = Log0

\* ------------------------------------------------------------ environment
\* The mint observes the Lightning payment.
Pay(i) ==
  /\ store[i].state = "UNPAID"
  /\ store' = [store EXCEPT ![i].state = "PAID"]
  /\ UNCHANGED <<hasMint, run, command, args, pc, quote, timeoutMs, startTime,
                 now, paid, error, printed, exitCode, cleaned, h>>
  /\ UNCHANGED fileVars

\* The Background Watcher redeems a paid quote.
WatcherRedeem(i) ==
  /\ CanMint(store[i].state)
  /\ store' = [store EXCEPT ![i].state = "ISSUED", ![i].minted = @ + 1]
  /\ h' = IF i = quote /\ pc \in AttemptPcs
            THEN [h EXCEPT !.watcher = TRUE]
            ELSE h
  /\ UNCHANGED <<hasMint, run, command, args, pc, quote, timeoutMs, startTime,
                 now, paid, error, printed, exitCode, cleaned>>
  /\ UNCHANGED fileVars

\* ------------------------------------------------------- process start/end
\* node wallet.mjs <command> <args...>
StartProcess(cmd, a) ==
  /\ pc \in {"idle", "exited"}
  /\ run < MaxRuns
  /\ run' = run + 1
  /\ command' = cmd
  /\ args' = a
  /\ pc' = "main"
  /\ quote' = NoArg
  /\ timeoutMs' = 0
  /\ startTime' = 0
  /\ now' = 0
  /\ paid' = FALSE
  /\ error' = NoError
  /\ printed' = "none"
  /\ exitCode' = -1
  /\ cleaned' = NotCleaned
  /\ h' = [H0 EXCEPT
             !.startState = IF a.quote \in QuoteIds THEN store[a.quote].state
                                                   ELSE "NONE",
             !.streak = IF command = "check-invoice" /\ printed = "paid"
                          THEN h.streak + 1 ELSE 0]
  /\ UNCHANGED <<store, hasMint>>
  /\ UNCHANGED fileVars

\* process.exit(code) without cleanup (wallet.mjs:98, 165, 172, 201)
ExitNow(code) ==
  /\ pc' = "exited"
  /\ exitCode' = code

\* catch (error) { console.error(...); await cleanup(); process.exit(1) }
OuterCatch ==
  /\ pc = "outer_catch"
  /\ printed' = "error"
  /\ pc' = "cleanup_err"
  /\ UNCHANGED <<store, hasMint, run, command, args, quote, timeoutMs,
                 startTime, now, paid, error, exitCode, cleaned, h>>
  /\ UNCHANGED fileVars

\* Variant: the outer catch exits with status 0.
ExitStatus_Zero(p) == 0

\* process.exit(1) after the outer catch's cleanup (wallet.mjs:349),
\* process.exit(0) after the final cleanup (wallet.mjs:353)
ExitStatus(p) == IF p = "cleanup_err" THEN 1 ELSE 0

\* cleanup(), then process.exit(1) in the outer catch (wallet.mjs:348-349)
\* or process.exit(0) at the end of main (wallet.mjs:352-353).
\* coco.dispose() may throw, which skips database.close.
Cleanup(disposeOk) ==
  /\ pc \in {"cleanup_err", "cleanup_ok"}
  /\ cleaned' = [called |-> TRUE, disposed |-> disposeOk, dbClosed |-> disposeOk]
  /\ ExitNow(ExitStatus(pc))
  /\ UNCHANGED <<store, hasMint, run, command, args, quote, timeoutMs,
                 startTime, now, paid, error, printed, h>>
  /\ UNCHANGED fileVars

\* What a state read returned, as recorded in h.
ReadResult(localQuote) ==
  IF localQuote.found /\ localQuote.state = "ISSUED" THEN "ISSUED" ELSE "other"


\* ------------------------------------------------------- command: invoice
\* wallet.mjs:91-99: arguments and mint; r is the outcome of getAllMints()
InvoiceArgs(r) ==
  /\ pc = "main"
  /\ command = "invoice"
  /\ timeoutMs' = ParseTimeout(args.timeout)
  /\ IF r.thrown
       THEN /\ ~args.mint
            /\ error' = r
            /\ pc' = "outer_catch"
            /\ UNCHANGED <<printed, exitCode>>
       ELSE IF MintResolved(args.mint, hasMint)
         THEN /\ pc' = "inv_create"
              /\ UNCHANGED <<error, printed, exitCode>>
         ELSE /\ printed' = "nomint"
              /\ ExitNow(1)
              /\ UNCHANGED error
  /\ UNCHANGED <<store, hasMint, run, command, args, quote, startTime, now,
                 paid, cleaned, h>>
  /\ UNCHANGED fileVars

\* wallet.mjs:101-110: createMintQuote, startTime, paid
InvoiceCreate(r) ==
  /\ pc = "inv_create"
  /\ IF r.thrown
       THEN /\ error' = r
            /\ pc' = "outer_catch"
            /\ UNCHANGED <<store, quote, startTime, paid>>
       ELSE \E id \in QuoteIds :
              /\ store[id].state = "NONE"
              /\ \A j \in QuoteIds : j < id => store[j].state # "NONE"
              /\ store' = [store EXCEPT ![id] =
                   [state |-> "UNPAID", request |-> RequestOf(id),
                    amount |-> ParseAmount(args.amount), minted |-> 0]]
              /\ quote' = id
              /\ startTime' = now
              /\ paid' = FALSE
              /\ pc' = "inv_while"
              /\ UNCHANGED error
  /\ UNCHANGED <<hasMint, run, command, args, timeoutMs, now, printed,
                 exitCode, cleaned, h>>
  /\ UNCHANGED fileVars

\* wallet.mjs:112: while (Date.now() - startTime < timeoutMs)
InvoiceWhile ==
  /\ pc = "inv_while"
  /\ pc' = IF LoopCondition(now, startTime, timeoutMs) THEN "inv_read" ELSE "inv_done"
  /\ h' = [h EXCEPT !.firstRead = "none", !.reRead = "none",
                    !.iterRedeems = 0, !.caught = NoError,
                    !.resolved = "none"]
  /\ UNCHANGED <<store, hasMint, run, command, args, quote, timeoutMs,
                 startTime, now, paid, error, printed, exitCode, cleaned>>
  /\ UNCHANGED fileVars

\* Variant: every error keeps the loop polling.
LoopAfterDuplicate_Retry(e) == "inv_sleep"

\* wallet.mjs:139-150: the pending test of the catch block
LoopAfterDuplicate(e) ==
  IF LoopIsPending(ErrorMsg(e)) THEN "inv_sleep" ELSE "outer_catch"

\* Variant: a pending error returns to the top of the loop without sleeping.
LoopCatch_NoSleep(e) ==
  IF LoopIsDuplicate(ErrorMsg(e)) THEN "inv_reread"
  ELSE IF LoopIsPending(ErrorMsg(e)) THEN "inv_while" ELSE "outer_catch"

\* wallet.mjs:125-131: the catch block up to its first await
LoopCatch(e) ==
  IF LoopIsDuplicate(ErrorMsg(e)) THEN "inv_reread" ELSE LoopAfterDuplicate(e)

\* Variant: the state that was read is not looked at.
LoopAfterRead_Ignore(localQuote, otherwise) == otherwise

\* wallet.mjs:116-119 / 133-136: ISSUED ends the loop, otherwise go on
LoopAfterRead(localQuote, otherwise) ==
  IF IsIssued(localQuote) THEN "inv_done" ELSE otherwise

\* How h.resolved records where an attempt went.
ResolvedAt(p) ==
  CASE p \in {"inv_done", "chk_done"} -> "success"
    [] p \in {"inv_sleep", "chk_pending"} -> "pending"
    [] p \in {"outer_catch", "chk_fatal"} -> "fatal"
    [] OTHER -> "none"

\* wallet.mjs:115-119: state read of an iteration
InvoiceRead(lat, r) ==
  /\ pc = "inv_read"
  /\ now' = now + lat
  /\ IF r.thrown
       THEN /\ error' = r
            /\ pc' = LoopCatch(r)
            /\ h' = [h EXCEPT !.reads = @ + 1, !.firstRead = "threw",
                              !.caught = r,
                              !.resolved = ResolvedAt(LoopCatch(r))]
            /\ UNCHANGED paid
       ELSE LET localQuote == GetMintQuote(store, quote)
                next == LoopAfterRead(localQuote, "inv_redeem") IN
            /\ pc' = next
            /\ paid' = IF next = "inv_done" THEN TRUE ELSE paid
            /\ h' = [h EXCEPT !.reads = @ + 1,
                              !.firstRead = ReadResult(localQuote),
                              !.resolved = ResolvedAt(next)]
            /\ UNCHANGED error
  /\ UNCHANGED <<store, hasMint, run, command, args, quote, timeoutMs,
                 startTime, printed, exitCode, cleaned>>
  /\ UNCHANGED fileVars

\* wallet.mjs:122-124: redeemMintQuote.  The engine mints only for a paid
\* quote, and then records the quote as ISSUED.
InvoiceRedeem(lat, r) ==
  /\ pc = "inv_redeem"
  /\ now' = now + lat
  /\ IF r.thrown
       THEN /\ error' = r
            /\ pc' = LoopCatch(r)
            /\ h' = [h EXCEPT !.redeemCalls = @ + 1, !.iterRedeems = @ + 1,
                              !.caught = r,
                              !.resolved = ResolvedAt(LoopCatch(r))]
            /\ UNCHANGED <<store, paid>>
       ELSE /\ CanMint(store[quote].state)
            /\ store' = [store EXCEPT ![quote].state = "ISSUED",
                                      ![quote].minted = @ + 1]
            /\ paid' = TRUE
            /\ pc' = "inv_done"
            /\ h' = [h EXCEPT !.redeemCalls = @ + 1, !.iterRedeems = @ + 1,
                              !.redeemed = TRUE, !.resolved = "success"]
            /\ UNCHANGED error
  /\ UNCHANGED <<hasMint, run, command, args, quote, timeoutMs, startTime,
                 printed, exitCode, cleaned>>
  /\ UNCHANGED fileVars

\* Variant: a failing re-read is swallowed and the pending test decides.
LoopRereadThrows_Masked(e) == LoopAfterDuplicate(e)

\* wallet.mjs:132: the re-read is awaited inside the catch block, so what it
\* throws leaves the loop and the switch for the outer catch.
LoopRereadThrows(e) == "outer_catch"

\* wallet.mjs:132-137 and on to 139-150: the re-read after a duplicate signal
InvoiceReread(lat, r) ==
  /\ pc = "inv_reread"
  /\ now' = now + lat
  /\ IF r.thrown                       \* thrown inside the catch block
       THEN /\ error' = r
            /\ pc' = LoopRereadThrows(error)
            /\ h' = [h EXCEPT !.reads = @ + 1, !.reRead = "threw",
                              !.resolved = ResolvedAt(LoopRereadThrows(error))]
            /\ UNCHANGED paid
       ELSE LET localQuote == GetMintQuote(store, quote)
                next == LoopAfterRead(localQuote, LoopAfterDuplicate(error)) IN
            /\ pc' = next
            /\ paid' = IF next = "inv_done" THEN TRUE ELSE paid
            /\ h' = [h EXCEPT !.reads = @ + 1,
                              !.reRead = ReadResult(localQuote),
                              !.resolved = ResolvedAt(next)]
            /\ UNCHANGED error
  /\ UNCHANGED <<store, hasMint, run, command, args, quote, timeoutMs,
                 startTime, printed, exitCode, cleaned>>
  /\ UNCHANGED fileVars

\* Variant: the timer fires after a fifth of the time asked for.
TimerFires_Early(t, ms) == t + ms \div 5

\* setTimeout(resolve, ms), set at time t: when the promise resolves
TimerFires(t, ms) == t + ms

\* wallet.mjs:145-146: print '.', sleep pollInterval
InvoiceSleep ==
  /\ pc = "inv_sleep"
  /\ now' = TimerFires(now, pollInterval)
  /\ error' = NoError
  /\ pc' = "inv_while"
  /\ h' = [h EXCEPT !.sleeps = @ + 1]
  /\ UNCHANGED <<store, hasMint, run, command, args, quote, timeoutMs,
                 startTime, paid, printed, exitCode, cleaned>>
  /\ UNCHANGED fileVars

\* Variant: the confirmation is printed whether paid is set or not.
LoopReport_Always(p) == "paid"

\* wallet.mjs:154-158: if (paid) ... else ...
LoopReport(p) == IF p THEN "paid" ELSE "timeout"

\* wallet.mjs:154-159: report, then leave the switch
InvoiceDone ==
  /\ pc = "inv_done"
  /\ printed' = LoopReport(paid)
  /\ error' = NoError
  /\ pc' = "cleanup_ok"
  /\ UNCHANGED <<store, hasMint, run, command, args, quote, timeoutMs,
                 startTime, now, paid, exitCode, cleaned, h>>
  /\ UNCHANGED fileVars

\* ------------------------------------------------- command: check-invoice
\* wallet.mjs:163-173: arguments and mint; r is the outcome of getAllMints()
CheckArgs(r) ==
  /\ pc = "main"
  /\ command = "check-invoice"
  /\ IF args.quote = NoArg
       THEN /\ ~r.thrown
            /\ printed' = "usage"
            /\ ExitNow(1)
            /\ UNCHANGED <<error, quote>>
       ELSE IF r.thrown
         THEN /\ ~args.mint
              /\ error' = r
              /\ pc' = "outer_catch"
              /\ UNCHANGED <<printed, exitCode, quote>>
         ELSE IF MintResolved(args.mint, hasMint)
           THEN /\ pc' = "chk_read"
                /\ quote' = args.quote
                /\ UNCHANGED <<error, printed, exitCode>>
           ELSE /\ printed' = "nomint"
                /\ ExitNow(1)
                /\ UNCHANGED <<error, quote>>
  /\ UNCHANGED <<store, hasMint, run, command, args, timeoutMs, startTime,
                 now, paid, cleaned, h>>
  /\ UNCHANGED fileVars

\* Variant: a pending signal makes check-invoice redeem again.
ManualAfterDuplicate_Again(e) ==
  IF ManualIsPending(ErrorMsg(e)) THEN "chk_redeem" ELSE "chk_fatal"

\* wallet.mjs:195-202: the pending test of the catch block
ManualAfterDuplicate(e) ==
  IF ManualIsPending(ErrorMsg(e)) THEN "chk_pending" ELSE "chk_fatal"

\* Variant: no error is taken for a pending signal.
ManualCatch_NoPending(e) ==
  IF ManualIsDuplicate(ErrorMsg(e)) THEN "chk_reread" ELSE "chk_fatal"

\* wallet.mjs:184-187: the catch block up to its first await
ManualCatch(e) ==
  IF ManualIsDuplicate(ErrorMsg(e)) THEN "chk_reread" ELSE ManualAfterDuplicate(e)

\* Variant: the local state is not looked at.
ManualAfterRead_Blind(localQuote, otherwise) == otherwise

\* wallet.mjs:178-183 / 189-192: ISSUED is success, otherwise go on
ManualAfterRead(localQuote, otherwise) ==
  IF IsIssued(localQuote) THEN "chk_done" ELSE otherwise

\* The end of a check-invoice attempt: success and pending print and leave
\* the switch (wallet.mjs:179, 182, 190-191, 198), the fatal branch prints
\* and exits at once (wallet.mjs:200-201).
ManualGoto(label) ==
  /\ printed' = CASE label = "chk_done" -> "paid"
                  [] label = "chk_pending" -> "pending"
                  [] label = "chk_fatal" -> "error"
                  [] OTHER -> printed
  /\ pc' = CASE label \in {"chk_done", "chk_pending"} -> "cleanup_ok"
             [] label = "chk_fatal" -> "exited"
             [] OTHER -> label
  /\ exitCode' = IF label = "chk_fatal" THEN 1 ELSE exitCode

\* wallet.mjs:177-179: state read
CheckRead(lat, r) ==
  /\ pc = "chk_read"
  /\ now' = now + lat
  /\ LET label == IF r.thrown
                    THEN ManualCatch(r)
                    ELSE ManualAfterRead(GetMintQuote(store, quote), "chk_redeem") IN
       /\ ManualGoto(label)
       /\ error' = IF r.thrown /\ label # "chk_pending" THEN r ELSE NoError
       /\ h' = [h EXCEPT !.reads = @ + 1,
                         !.firstRead = IF r.thrown THEN "threw"
                             ELSE ReadResult(GetMintQuote(store, quote)),
                         !.caught = r,
                         !.resolved = ResolvedAt(label)]
  /\ UNCHANGED <<store, hasMint, run, command, args, quote, timeoutMs,
                 startTime, paid, cleaned>>
  /\ UNCHANGED fileVars

\* wallet.mjs:181-182: redeemMintQuote
CheckRedeem(lat, r) ==
  /\ pc = "chk_redeem"
  /\ now' = now + lat
  /\ LET label == IF r.thrown THEN ManualCatch(r) ELSE "chk_done" IN
       /\ ~r.thrown => CanMint(store[quote].state)
       /\ store' = IF r.thrown THEN store
                   ELSE [store EXCEPT ![quote].state = "ISSUED",
                                      ![quote].minted = @ + 1]
       /\ ManualGoto(label)
       /\ error' = IF r.thrown /\ label # "chk_pending" THEN r ELSE NoError
       /\ h' = [h EXCEPT !.redeemCalls = @ + 1, !.iterRedeems = @ + 1,
                         !.redeemed = ~r.thrown,
                         !.caught = r,
                         !.resolved = ResolvedAt(label)]
  /\ UNCHANGED <<hasMint, run, command, args, quote, timeoutMs, startTime,
                 paid, cleaned>>
  /\ UNCHANGED fileVars

\* wallet.mjs:188-192 and on to 195-202: the re-read after a duplicate signal
CheckReread(lat, r) ==
  /\ pc = "chk_reread"
  /\ now' = now + lat
  /\ IF r.thrown                       \* thrown inside the catch block
       THEN /\ error' = r
            /\ pc' = "outer_catch"
            /\ h' = [h EXCEPT !.reads = @ + 1, !.reRead = "threw",
                              !.resolved = "fatal"]
            /\ UNCHANGED <<printed, exitCode>>
       ELSE LET localQuote == GetMintQuote(store, quote)
                label == ManualAfterRead(localQuote, ManualAfterDuplicate(error)) IN
            /\ ManualGoto(label)
            /\ error' = IF label = "chk_fatal" THEN error ELSE NoError
            /\ h' = [h EXCEPT !.reads = @ + 1,
                              !.reRead = ReadResult(localQuote),
                              !.resolved = ResolvedAt(label)]
  /\ UNCHANGED <<store, hasMint, run, command, args, quote, timeoutMs,
                 startTime, paid, cleaned>>
  /\ UNCHANGED fileVars

\* -------------------------------------------------------------------- next
InvoiceArgChoices ==
  [amount : AmountArgs, mint : BOOLEAN, timeout : TimeoutArgs, quote : {NoArg}]

CheckArgChoices ==
  [amount : {NoArg}, mint : BOOLEAN, timeout : {NoArg}, quote : QuoteIds \cup {NoArg}]

Next ==
  \/ \E i \in QuoteIds : Pay(i)
  \/ \E i \in QuoteIds : WatcherRedeem(i)
  \/ \E a \in InvoiceArgChoices : StartProcess("invoice", a)
  \/ \E a \in CheckArgChoices : StartProcess("check-invoice", a)
  \/ \E r \in SetupResults : InvoiceArgs(r)
  \/ \E r \in SetupResults : InvoiceCreate(r)
  \/ InvoiceWhile
  \/ \E lat \in Latencies, r \in ReadResults : InvoiceRead(lat, r)
  \/ \E lat \in Latencies, r \in Results : InvoiceRedeem(lat, r)
  \/ \E lat \in Latencies, r \in ReadResults : InvoiceReread(lat, r)
  \/ InvoiceSleep
  \/ InvoiceDone
  \/ \E r \in SetupResults : CheckArgs(r)
  \/ \E lat \in Latencies, r \in ReadResults : CheckRead(lat, r)
  \/ \E lat \in Latencies, r \in Results : CheckRedeem(lat, r)
  \/ \E lat \in Latencies, r \in ReadResults : CheckReread(lat, r)
  \/ OuterCatch
  \/ \E ok \in BOOLEAN : Cleanup(ok)

Spec == Init /\ [][Next]_vars


\* ------------------------------------------- the race with the Watcher
\* The engine of the race scenario: a redeem call fails with
\* "Quote not paid" on an unpaid quote, succeeds on a paid one and fails
\* with "already issued" on an issued one; the other calls return.
RaceAnswer(state) ==
  CASE state = "UNPAID" -> Err(M_QuoteNotPaid)
    [] state = "ISSUED" -> Err(M_alreadyIssued)
    [] OTHER -> Ok

NextRace ==
  \/ \E i \in QuoteIds : Pay(i)
  \/ \E i \in QuoteIds : WatcherRedeem(i)
  \/ \E a \in InvoiceArgChoices : StartProcess("invoice", a)
  \/ InvoiceArgs(Ok)
  \/ InvoiceCreate(Ok)
  \/ InvoiceWhile
  \/ \E lat \in Latencies : InvoiceRead(lat, Ok)
  \/ \E lat \in Latencies : InvoiceRedeem(lat, RaceAnswer(store[quote].state))
  \/ \E lat \in Latencies : InvoiceReread(lat, Ok)
  \/ InvoiceSleep
  \/ InvoiceDone
  \/ \E ok \in BOOLEAN : Cleanup(ok)

SpecRace == Init /\ [][NextRace]_vars

\* ------------------------------------------- the quote that is never paid
\* Nobody pays, every call returns at once, every redeem call fails with a
\* message that says the quote is unpaid.
UnpaidMessages == {M_QuoteNotPaid, M_UNPAID, M_PENDING}
UnpaidTimeoutArgs == {NoArg, 12000}
UnpaidArgChoices ==
  [amount : AmountArgs, mint : BOOLEAN, timeout : UnpaidTimeoutArgs, quote : {NoArg}]

NextUnpaid ==
  \/ \E a \in UnpaidArgChoices : StartProcess("invoice", a)
  \/ InvoiceArgs(Ok)
  \/ InvoiceCreate(Ok)
  \/ InvoiceWhile
  \/ InvoiceRead(0, Ok)
  \/ \E m \in UnpaidMessages : InvoiceRedeem(0, Err(m))
  \/ InvoiceSleep
  \/ InvoiceDone
  \/ \E ok \in BOOLEAN : Cleanup(ok)

SpecUnpaid == Init /\ [][NextUnpaid]_vars

\* ------------------------------------------- start-up and the seed file
\* Before any process has run: there may be an old wallet directory, a new
\* one, and a seed.txt in either.  The start-up code does not read the
\* wallet database, which is empty here.
InitSeed ==
  /\ InitCore
  /\ \A i \in QuoteIds : store[i].state = "NONE"
  /\ ~hasMint
  /\ walletDir \in BOOLEAN
  /\ oldDir \in {NoDir, Dir(NoFile)} \cup { Dir(File(t)) : t \in EarlierTexts }
  /\ seedFile \in IF walletDir
                    THEN {NoFile} \cup { File(t) : t \in EarlierTexts }
                    ELSE {NoFile}
  /\ boot = "idle"
  /\ seedLog = Log0

\* node wallet.mjs ...: the next process starts when the one before it has
\* ended (the runs do not overlap).
StartUp ==
  /\ boot \in {"idle", "ready", "dead"}
  /\ seedLog.runs < MaxRuns
  /\ boot' = "migrate"
  /\ seedLog' = [seedLog EXCEPT !.runs = @ + 1, !.calls = 0]
  /\ UNCHANGED <<walletDir, oldDir, seedFile>>
  /\ UNCHANGED coreVars

\* wallet.mjs:16-24: move the old wallet directory; a failing rename is
\* caught and logged.
Migrate(renameOk) ==
  /\ boot = "migrate"
  /\ boot' = "ensure"
  /\ IF ~walletDir /\ oldDir.exists /\ renameOk
       THEN /\ walletDir' = TRUE
            /\ seedFile' = oldDir.seed
            /\ oldDir' = NoDir
       ELSE /\ (walletDir \/ ~oldDir.exists) => renameOk
            /\ UNCHANGED <<walletDir, oldDir, seedFile>>
  /\ UNCHANGED seedLog
  /\ UNCHANGED coreVars

\* wallet.mjs:26-29: mkdirSync; when it throws the process ends.
EnsureDir(mkdirOk) ==
  /\ boot = "ensure"
  /\ IF walletDir
       THEN /\ mkdirOk
            /\ boot' = "ready"
            /\ UNCHANGED walletDir
       ELSE /\ walletDir' = mkdirOk
            /\ boot' = IF mkdirOk THEN "ready" ELSE "dead"
  /\ UNCHANGED <<oldDir, seedFile, seedLog>>
  /\ UNCHANGED coreVars

\* wallet.mjs:32-40: seedGetter, called by initializeCoco.  `seed` is what
\* randomBytes returns; writeFileSync writes the text ("ok"), or throws and
\* leaves no file ("nofile") or an empty one ("empty"), which ends the
\* process.  The function has no await: nothing runs in between.
SeedGetter(seed, written) ==
  /\ boot = "ready"
  /\ seedLog.calls < MaxSeedCalls
  /\ IF SeedExists(seedFile)
       THEN /\ written = "ok"
            /\ seedLog' = [seedLog EXCEPT !.calls = @ + 1,
                                          !.returned = Seed(FromHex(seedFile.text))]
            /\ UNCHANGED <<seedFile, boot>>
       ELSE CASE written = "ok" ->
                   /\ seedFile' = File(ToHex(seed))
                   /\ seedLog' = [seedLog EXCEPT !.calls = @ + 1,
                                                 !.writes = @ + 1,
                                                 !.writeRun = seedLog.runs,
                                                 !.returned = Seed(seed)]
                   /\ UNCHANGED boot
              [] written = "nofile" ->
                   /\ boot' = "dead"
                   /\ seedLog' = [seedLog EXCEPT !.calls = @ + 1]
                   /\ UNCHANGED seedFile
              [] OTHER ->
                   /\ seedFile' = File(<<>>)
                   /\ boot' = "dead"
                   /\ seedLog' = [seedLog EXCEPT !.calls = @ + 1]
  /\ UNCHANGED <<walletDir, oldDir>>
  /\ UNCHANGED coreVars

WriteOutcomes == {"ok", "nofile", "empty"}

NextSeed ==
  \/ StartUp
  \/ \E ok \in BOOLEAN : Migrate(ok)
  \/ \E ok \in BOOLEAN : EnsureDir(ok)
  \/ \E seed \in RandomSeeds, w \in WriteOutcomes : SeedGetter(seed, w)

SpecSeed == InitSeed /\ [][NextSeed]_vars

\* ------------------------------------------- resuming with check-invoice
\* The invoice process is killed while it waits: nothing of it is left but
\* what the store holds, and process.exit was never called.
Kill ==
  /\ command = "invoice"
  /\ pc \in AttemptPcs
  /\ pc' = "exited"
  /\ UNCHANGED <<store, hasMint, run, command, args, quote, timeoutMs,
                 startTime, now, paid, error, printed, exitCode, cleaned, h>>
  /\ UNCHANGED fileVars

\* The operator follows the hint of wallet.mjs:157 after a wait loop that
\* timed out or was killed, or checks the same quote once more.
Resume(a) ==
  /\ quote # NoArg
  /\ a.quote = quote
  /\ \/ command = "invoice" /\ (printed = "timeout" \/ exitCode = -1)
     \/ command = "check-invoice"
  /\ StartProcess("check-invoice", a)

\* The engine is the one of the race scenario.
NextResume ==
  \/ \E i \in QuoteIds : Pay(i)
  \/ \E i \in QuoteIds : WatcherRedeem(i)
  \/ \E a \in InvoiceArgChoices : StartProcess("invoice", a)
  \/ InvoiceArgs(Ok)
  \/ InvoiceCreate(Ok)
  \/ InvoiceWhile
  \/ \E lat \in Latencies : InvoiceRead(lat, Ok)
  \/ \E lat \in Latencies : InvoiceRedeem(lat, RaceAnswer(store[quote].state))
  \/ \E lat \in Latencies : InvoiceReread(lat, Ok)
  \/ InvoiceSleep
  \/ InvoiceDone
  \/ Kill
  \/ \E a \in CheckArgChoices : Resume(a)
  \/ CheckArgs(Ok)
  \/ \E lat \in Latencies : CheckRead(lat, Ok)
  \/ \E lat \in Latencies : CheckRedeem(lat, RaceAnswer(store[quote].state))
  \/ \E lat \in Latencies : CheckReread(lat, Ok)
  \/ \E ok \in BOOLEAN : Cleanup(ok)

SpecResume == Init /\ [][NextResume]_vars

\* ------------------------------------------- the invoice command, scheduled
\* Every collaborator call returns and the event loop runs the continuation
\* of a returned call or an expired timer: a step of the running process
\* that stays possible is eventually taken.  The payer, the Watcher and the
\* operator who starts processes are under no such obligation.
\* One outcome of redeemMintQuote for each way the catch block can take it:
\* pending, duplicate, both, neither, and no message at all.
LoopResults ==
  {Ok, Err(M_QuoteNotPaid), Err(M_alreadyIssued), Err(M_pendingAlreadyIssued),
   Err(M_networkError), ErrNoMessage}

LoopStep ==
  \/ \E r \in SetupResults : InvoiceArgs(r)
  \/ \E r \in SetupResults : InvoiceCreate(r)
  \/ InvoiceWhile
  \/ \E lat \in Latencies, r \in ReadResults : InvoiceRead(lat, r)
  \/ \E lat \in Latencies, r \in LoopResults : InvoiceRedeem(lat, r)
  \/ \E lat \in Latencies, r \in ReadResults : InvoiceReread(lat, r)
  \/ InvoiceSleep
  \/ InvoiceDone
  \/ OuterCatch
  \/ \E ok \in BOOLEAN : Cleanup(ok)

NextLoop ==
  \/ \E i \in QuoteIds : Pay(i)
  \/ \E i \in QuoteIds : WatcherRedeem(i)
  \/ \E a \in InvoiceArgChoices : StartProcess("invoice", a)
  \/ LoopStep

SpecLoopFair == Init /\ [][NextLoop]_vars /\ WF_vars(LoopStep)


\* ================================================================ claims
\* Case-insensitive matching, as the claims word it: both sides lowered.
LowerOf(c) ==
  CASE c = "A" -> "a" [] c = "D" -> "d" [] c = "E" -> "e" [] c = "G" -> "g"
    [] c = "I" -> "i" [] c = "N" -> "n" [] c = "P" -> "p" [] c = "Q" -> "q"
    [] c = "T" -> "t" [] c = "U" -> "u" [] OTHER -> c

ToLower(m) == [i \in 1..Len(m) |-> LowerOf(m[i])]

IncludesNoCase(m, p) == Includes(ToLower(m), ToLower(p))

L_already_minted == <<"a", "l", "r", "e", "a", "d", "y", " ", "m", "i", "n", "t", "e", "d">>

\* The duplicate and pending signals as the claims define them.
ClaimIsDuplicate(m) ==
  \/ IncludesNoCase(m, P_already_issued)
  \/ IncludesNoCase(m, P_already_spent)
  \/ IncludesNoCase(m, L_already_minted)

ClaimIsPending(m) ==
  \/ IncludesNoCase(m, P_PENDING)
  \/ IncludesNoCase(m, P_not_paid)
  \/ IncludesNoCase(m, P_UNPAID)

EndPcs == {"inv_done", "cleanup_ok", "exited"}
InLoop == command = "invoice" /\ quote # NoArg
InManual == command = "check-invoice" /\ quote # NoArg

\* The attempt's redeem call failed, with this error.
RedeemFailed == h.iterRedeems = 1 /\ h.caught.thrown

\* C1: when the state read made before a redemption attempt returns ISSUED,
\* the Loop iteration / the check-invoice invocation resolves success (paid
\* is set, the confirmation is printed, exit status 0) and makes no
\* redeemMintQuote call.
C1_IssuedReadSkipsRedeem ==
  h.firstRead = "ISSUED" =>
    /\ h.iterRedeems = 0
    /\ h.resolved = "success"
    /\ pc \in EndPcs
    /\ command = "invoice" => paid
    /\ pc \in {"cleanup_ok", "exited"} => printed = "paid"
    /\ pc = "exited" => exitCode = 0

\* A Loop that polled once in vain and then read ISSUED has ended.
C1_Witness ==
  /\ command = "invoice"
  /\ h.firstRead = "ISSUED"
  /\ h.sleeps = 1
  /\ h.redeemCalls = 1
  /\ pc = "exited"

\* C2 (as claimed): in the race scenario, a Loop during whose reads, redeem
\* attempts and sleeps the Watcher redeemed the quote ends in success.
C2_RaceEndsInSuccess ==
  (InLoop /\ h.watcher /\ pc = "exited") => printed = "paid"

\* C2 (amended): in the race scenario the Loop never takes the fatal path
\* and exits with status 0; a state read, redeem attempt or re-read made
\* while the quote is ISSUED never resolves pending or fatal, and a re-read
\* always finds ISSUED; the Loop ends without success only through the
\* deadline test at the top of an iteration.
C2_RaceState ==
  InLoop =>
    /\ pc \notin {"outer_catch", "cleanup_err"}
    /\ printed # "error"
    /\ h.resolved # "fatal"
    /\ pc = "exited" => exitCode = 0
    /\ h.reRead \in {"none", "ISSUED"}
    /\ (pc \in EndPcs /\ ~paid) =>
          /\ h.firstRead = "none"
          /\ ~LoopCondition(now, startTime, timeoutMs)

C2_RaceStep ==
  (InLoop /\ store[quote].state = "ISSUED"
      /\ pc \in {"inv_read", "inv_redeem", "inv_reread"} /\ pc' # pc) =>
    \/ pc' = "inv_done" /\ paid'
    \/ pc = "inv_redeem" /\ pc' = "inv_reread"

C2_RaceNeverFatal == [](C2_RaceState) /\ [][C2_RaceStep]_vars

\* The scenario of the spec: the first redeem fails with "Quote not paid",
\* the Watcher redeems, the second redeem fails with "already issued", the
\* re-read returns ISSUED, the Loop ends paid.
C2_Witness ==
  /\ InLoop
  /\ h.watcher
  /\ h.sleeps = 1
  /\ h.redeemCalls = 2
  /\ h.caught = Err(M_alreadyIssued)
  /\ h.reRead = "ISSUED"
  /\ paid
  /\ pc = "exited"
  /\ exitCode = 0


\* What the re-read that follows a duplicate signal returned or, where the
\* code made none, what it would return now.
RereadValue ==
  IF h.reRead # "none" THEN h.reRead
                       ELSE ReadResult(GetMintQuote(store, quote))

\* C3 (as claimed): a redeem error whose message contains, in any letter
\* case, "already issued", "already spent" or "already minted" resolves
\* success exactly when the re-read returns ISSUED, and pending (not fatal)
\* when the re-read returns another state.
C3_DuplicateSignal ==
  (RedeemFailed /\ ClaimIsDuplicate(ErrorMsg(h.caught))
      /\ h.resolved # "none" /\ h.reRead # "threw") =>
    /\ h.resolved = "success" <=> h.reRead = "ISSUED"
    /\ h.reRead # "ISSUED" => h.resolved = "pending"

\* C4 (as claimed): a redeem error whose message contains, in any letter
\* case, "PENDING", "not paid" or "UNPAID" is never fatal, and is pending
\* unless the message is a duplicate signal as well.
C4_PendingSignal ==
  (RedeemFailed /\ ClaimIsPending(ErrorMsg(h.caught))
      /\ h.resolved # "none" /\ h.reRead # "threw") =>
    /\ h.resolved # "fatal"
    /\ ~ClaimIsDuplicate(ErrorMsg(h.caught)) => h.resolved = "pending"

\* The run is on the fatal path of the outer catch.
OnFatalPath == pc \in {"outer_catch", "cleanup_err"}

\* C5: a redeem error whose message is neither a duplicate signal nor a
\* pending signal (an empty or missing message included) is fatal at once:
\* the Loop goes to the outer catch with the original error, which prints
\* it, cleans up and exits with status 1; from the throw on, no sleep, no
\* state read and no redeem call is made.
C5_OtherState ==
  (RedeemFailed /\ ~ClaimIsDuplicate(ErrorMsg(h.caught))
                /\ ~ClaimIsPending(ErrorMsg(h.caught))) =>
    /\ h.resolved = "fatal"
    /\ h.reRead = "none"
    /\ error = h.caught
    /\ InLoop => (OnFatalPath \/ pc = "exited")
    /\ pc = "exited" => (exitCode = 1 /\ printed = "error")

C5_OtherStep ==
  (InLoop /\ OnFatalPath) =>
    /\ pc' \in {"outer_catch", "cleanup_err", "exited"}
    /\ h'.reads = h.reads
    /\ h'.redeemCalls = h.redeemCalls
    /\ h'.sleeps = h.sleeps
    /\ error' = error
    /\ now' = now

C5_OtherErrorIsFatal == [](C5_OtherState) /\ [][C5_OtherStep]_vars

\* After one pending poll, a redeem error without a message has ended the
\* Loop with status 1.
C5_Witness ==
  /\ InLoop
  /\ RedeemFailed
  /\ h.caught = ErrNoMessage
  /\ h.sleeps = 1
  /\ h.redeemCalls = 2
  /\ pc = "exited"
  /\ exitCode = 1

\* The class the Loop's catch block gives an error and a re-read result.
LoopClass(e, reread) ==
  IF LoopCatch(e) = "inv_reread"
    THEN ResolvedAt(IF reread = "ISSUED" THEN "inv_done" ELSE LoopAfterDuplicate(e))
    ELSE ResolvedAt(LoopCatch(e))

\* The class check-invoice's catch block gives them.
ManualClass(e, reread) ==
  IF ManualCatch(e) = "chk_reread"
    THEN ResolvedAt(IF reread = "ISSUED" THEN "chk_done" ELSE ManualAfterDuplicate(e))
    ELSE ResolvedAt(ManualCatch(e))

\* C6 (as claimed): the class in which one path puts a failed redeem
\* attempt is the class the other path gives the same error message and
\* the same re-read result.
C6_SamePolicy ==
  (RedeemFailed /\ h.resolved # "none" /\ h.reRead # "threw") =>
    /\ InLoop => h.resolved = ManualClass(h.caught, RereadValue)
    /\ InManual => h.resolved = LoopClass(h.caught, RereadValue)


\* The Loop of a never-paid quote with timeoutMs = 12000 has ended.
UnpaidRunEnded == InLoop /\ timeoutMs = 12000 /\ pc = "exited"

\* C7 (as claimed): with pollInterval = 5000 and timeoutMs = 12000 the Loop
\* of a never-paid quote makes exactly two redemption attempts and ends
\* TimedOut with exit status 0.
C7_TwoAttempts ==
  UnpaidRunEnded =>
    /\ h.redeemCalls = 2
    /\ printed = "timeout"
    /\ exitCode = 0

\* C7 (amended): it makes exactly three redemption attempts, at 0, 5000 and
\* 10000 ms, sleeps three times and ends TimedOut at 15000 ms with exit
\* status 0; in general the number of attempts is the number of multiples
\* of pollInterval below timeoutMs.
AttemptsWithin(timeout) ==
  Cardinality({k \in 0..(timeout \div pollInterval) : k * pollInterval < timeout})

C7_ThreeAttempts ==
  /\ (InLoop /\ timeoutMs = 12000 /\ pc = "inv_redeem") =>
        now - startTime \in {0, 5000, 10000}
  /\ UnpaidRunEnded =>
        /\ h.redeemCalls = 3
        /\ h.sleeps = 3
        /\ now - startTime = 15000
        /\ ~paid
        /\ printed = "timeout"
        /\ exitCode = 0
  /\ (InLoop /\ pc = "exited") =>
        /\ h.redeemCalls = AttemptsWithin(timeoutMs)
        /\ printed = "timeout"
        /\ exitCode = 0

C7_Witness ==
  /\ UnpaidRunEnded
  /\ h.redeemCalls = 3
  /\ printed = "timeout"

\* C8: a check-invoice run that starts on a quote already ISSUED and whose
\* state read returns reads ISSUED, makes no redeem call, reports success
\* and exits with status 0, whatever number of such runs came before; and
\* no step of any actor takes a quote out of ISSUED.
C8_IdempotentState ==
  (InManual /\ h.startState = "ISSUED" /\ h.firstRead \notin {"none", "threw"}) =>
    /\ h.firstRead = "ISSUED"
    /\ h.reads = 1
    /\ h.redeemCalls = 0
    /\ h.resolved = "success"
    /\ ~error.thrown
    /\ printed = "paid"
    /\ pc \in {"cleanup_ok", "exited"}
    /\ pc = "exited" => exitCode = 0
    /\ store[quote].state = "ISSUED"

C8_IssuedStays ==
  \A i \in QuoteIds : store[i].state = "ISSUED" => store'[i] = store[i]

C8_ManualIdempotent == [](C8_IdempotentState) /\ [][C8_IssuedStays]_vars

\* The second check-invoice in a row on an issued quote has succeeded.
C8_Witness ==
  /\ InManual
  /\ h.startState = "ISSUED"
  /\ h.streak = 1
  /\ printed = "paid"
  /\ h.redeemCalls = 0
  /\ pc = "exited"
  /\ exitCode = 0

\* The order of the positions of a check-invoice run.
ManualRank(p) ==
  CASE p = "main" -> 0
    [] p = "chk_read" -> 1
    [] p = "chk_redeem" -> 2
    [] p = "chk_reread" -> 3
    [] p = "outer_catch" -> 4
    [] p \in {"cleanup_ok", "cleanup_err"} -> 5
    [] OTHER -> 6

\* C9: a check-invoice run makes at most one redeem call and at most two
\* state reads, never sleeps, never returns to an earlier position, and
\* once its attempt has started it ends with exactly one report: success
\* (exit 0), pending (exit 0) or the error (exit 1).
C9_SingleShotState ==
  command = "check-invoice" =>
    /\ h.redeemCalls <= 1
    /\ h.reads <= 2
    /\ h.sleeps = 0
    /\ pc \notin {"inv_create", "inv_while", "inv_read", "inv_redeem",
                  "inv_reread", "inv_sleep", "inv_done"}
    /\ (InManual /\ pc = "exited") =>
          /\ printed \in {"paid", "pending", "error"}
          /\ printed = "paid" <=> h.resolved = "success"
          /\ printed = "pending" <=> h.resolved = "pending"
          /\ printed = "error" <=> h.resolved = "fatal"
          /\ exitCode = IF printed = "error" THEN 1 ELSE 0

C9_SingleShotStep ==
  (command = "check-invoice" /\ command' = command /\ pc' # pc /\ pc # "exited") =>
    ManualRank(pc') > ManualRank(pc)

C9_SingleShot == [](C9_SingleShotState) /\ [][C9_SingleShotStep]_vars

\* A check-invoice run whose redeem call failed with a pending signal.
C9_Witness ==
  /\ InManual
  /\ h.redeemCalls = 1
  /\ h.resolved = "pending"
  /\ printed = "pending"
  /\ pc = "exited"
  /\ exitCode = 0

\* C10: exit status.  invoice: 0 exactly when the Loop ended paid or timed
\* out, 1 on a fatal error or without a mint.  check-invoice: 0 on success
\* and on pending, 1 on a fatal error, without a quote id (before any state
\* read or redeem call) or without a mint.
C10_ExitStatus ==
  pc = "exited" =>
    /\ exitCode \in {0, 1}
    /\ command = "invoice" =>
          /\ exitCode = 0 <=> printed \in {"paid", "timeout"}
          /\ exitCode = 1 <=> printed \in {"error", "nomint"}
          /\ printed = "paid" <=> (quote # NoArg /\ paid /\ h.resolved = "success")
          /\ printed = "timeout" <=>
               (quote # NoArg /\ ~paid /\ ~error.thrown
                  /\ ~LoopCondition(now, startTime, timeoutMs))
          /\ printed = "error" <=> error.thrown
          /\ printed = "nomint" <=> (~error.thrown /\ ~MintResolved(args.mint, hasMint))
    /\ command = "check-invoice" =>
          /\ exitCode = 0 <=> printed \in {"paid", "pending"}
          /\ exitCode = 1 <=> printed \in {"error", "usage", "nomint"}
          /\ printed = "paid" <=> h.resolved = "success"
          /\ printed = "pending" <=> h.resolved = "pending"
          /\ printed = "error" <=> error.thrown
          /\ printed = "usage" <=> args.quote = NoArg
          /\ printed = "usage" => (h.reads = 0 /\ h.redeemCalls = 0)
          /\ printed = "nomint" <=>
               (args.quote # NoArg /\ ~error.thrown
                  /\ ~MintResolved(args.mint, hasMint))

\* A check-invoice run whose re-read threw has left through the outer catch.
C10_Witness ==
  /\ InManual
  /\ h.reRead = "threw"
  /\ printed = "error"
  /\ pc = "exited"
  /\ exitCode = 1


\* C11: the Loop terminates.  Every attempt after the first follows a sleep,
\* a sleep is only begun in an iteration started before the deadline and
\* each sleep moves the clock by pollInterval, so the number of iterations
\* is bounded by the deadline; at the top of an iteration at or after the
\* deadline the Loop leaves without paid.  A run ends in exactly one of
\* success, Fatal and TimedOut, and a run none of whose attempts resolved
\* success or fatal ends TimedOut, at or after the deadline, with status 0.
\* Under the scheduling of SpecLoopFair every run that entered the Loop
\* comes to its exit.
C11_BoundedState ==
  InLoop =>
    /\ h.redeemCalls <= h.sleeps + 1
    /\ h.sleeps * pollInterval <= now - startTime
    /\ h.sleeps >= 1 => (h.sleeps - 1) * pollInterval < timeoutMs
    /\ pc = "inv_while" => ~paid
    /\ pc = "exited" =>
          /\ printed \in {"paid", "timeout", "error"}
          /\ printed = "paid" <=> h.resolved = "success"
          /\ printed = "error" <=> h.resolved = "fatal"
          /\ printed = "timeout" <=> h.resolved \notin {"success", "fatal"}
          /\ printed = "timeout" =>
                /\ now - startTime >= timeoutMs
                /\ ~paid
                /\ exitCode = 0

C11_DeadlineStep ==
  (InLoop /\ pc = "inv_while" /\ pc' # pc /\ now - startTime >= timeoutMs) =>
    (pc' = "inv_done" /\ ~paid')

C11_Ends == (InLoop /\ pc # "exited") ~> (InLoop /\ pc = "exited")

C11_LoopTerminates ==
  [](C11_BoundedState) /\ [][C11_DeadlineStep]_vars /\ C11_Ends

\* A run whose two attempts were both pending has ended TimedOut.
C11_Witness ==
  /\ InLoop
  /\ pc = "exited"
  /\ printed = "timeout"
  /\ h.sleeps = 2
  /\ h.redeemCalls = 2
  /\ timeoutMs = 7000


\* C12: check-invoice after a wait loop that timed out or was killed.  The
\* new process starts with nothing of the earlier run but its arguments;
\* what it does is decided by the state of the quote at the moment of each
\* call: a read of ISSUED reports success without a redeem call; a redeem
\* call on a PAID quote redeems it and reports success; a redeem call on an
\* UNPAID quote reports pending and changes nothing; a redeem call on a
\* quote the Watcher issued in between goes to the re-read, which reports
\* success.  The run never ends in an error.
C12_FreshStart ==
  (pc' = "main" /\ pc # "main") =>
    /\ paid' = FALSE
    /\ error' = NoError
    /\ printed' = "none"
    /\ timeoutMs' = 0
    /\ startTime' = 0
    /\ now' = 0
    /\ h'.reads = 0 /\ h'.redeemCalls = 0 /\ h'.sleeps = 0
    /\ h'.firstRead = "none" /\ h'.reRead = "none" /\ h'.caught = NoError
    /\ store' = store

C12_ResumeStep ==
  (InManual /\ pc' # pc /\ pc \in {"chk_read", "chk_redeem", "chk_reread"}) =>
    LET state == store[quote].state IN
    /\ (pc = "chk_read" /\ state = "ISSUED") =>
          (printed' = "paid" /\ pc' = "cleanup_ok" /\ h'.redeemCalls = 0
             /\ store' = store)
    /\ (pc = "chk_read" /\ state # "ISSUED") =>
          (pc' = "chk_redeem" /\ store' = store)
    /\ (pc = "chk_redeem" /\ state = "PAID") =>
          (printed' = "paid" /\ pc' = "cleanup_ok" /\ h'.redeemed
             /\ store'[quote].state = "ISSUED")
    /\ (pc = "chk_redeem" /\ state = "UNPAID") =>
          (printed' = "pending" /\ pc' = "cleanup_ok" /\ store' = store)
    /\ (pc = "chk_redeem" /\ state = "ISSUED") =>
          (pc' = "chk_reread" /\ store' = store)
    /\ pc = "chk_reread" =>
          (state = "ISSUED" /\ printed' = "paid" /\ pc' = "cleanup_ok"
             /\ store' = store)

C12_ResumeState ==
  InManual =>
    /\ pc \notin {"outer_catch", "cleanup_err"}
    /\ printed \in {"none", "paid", "pending"}
    /\ h.redeemCalls <= 1
    /\ pc = "exited" =>
          /\ exitCode = 0
          /\ printed = "paid" => store[quote].state = "ISSUED"
          /\ printed = "paid" <=> (h.firstRead = "ISSUED" \/ h.redeemed
                                     \/ h.reRead = "ISSUED")
          /\ printed = "pending" <=> h.caught = Err(M_QuoteNotPaid)

C12_ResumeAfterLoop ==
  [](C12_ResumeState) /\ [][C12_FreshStart]_vars /\ [][C12_ResumeStep]_vars

\* The quote was paid after the wait loop gave up; the check-invoice run
\* that followed redeemed it.
C12_Witness ==
  /\ InManual
  /\ run = 2
  /\ h.startState = "PAID"
  /\ h.redeemed
  /\ store[quote].state = "ISSUED"
  /\ printed = "paid"
  /\ pc = "exited"


\* An invocation has seen ISSUED in a state read or had a redeem call
\* return.
SawIssuedOrRedeemed ==
  h.firstRead = "ISSUED" \/ h.reRead = "ISSUED" \/ h.redeemed

\* C13: ISSUED is terminal.  No step takes a quote out of ISSUED or changes
\* an issued quote; an invocation that has read ISSUED or whose redeem call
\* returned is past its attempts and makes no further redeem call; tokens
\* are minted for a quote at most once, whoever redeems (Loop, check-invoice
\* or Watcher, in any interleaving), and exactly once for an issued quote.
C13_TerminalState ==
  /\ \A i \in QuoteIds :
       /\ store[i].minted <= 1
       /\ store[i].minted = 1 <=> store[i].state = "ISSUED"
  /\ (quote # NoArg /\ SawIssuedOrRedeemed) =>
       /\ pc \in EndPcs
       /\ h.resolved = "success"
       /\ store[quote].state = "ISSUED"
       /\ h.iterRedeems <= 1

C13_TerminalStep ==
  /\ \A i \in QuoteIds : store[i].state = "ISSUED" => store'[i] = store[i]
  /\ \A i \in QuoteIds :
       store'[i].minted # store[i].minted =>
         (store[i].state = "PAID" /\ store'[i].state = "ISSUED")
  /\ (quote # NoArg /\ SawIssuedOrRedeemed /\ run' = run) =>
       (h'.redeemCalls = h.redeemCalls /\ h'.reads = h.reads)

C13_IssuedIsTerminal == [](C13_TerminalState) /\ [][C13_TerminalStep]_vars

\* The Watcher issued the quote while the Loop waited; the Loop's redeem
\* call was refused, its re-read found ISSUED, and tokens were minted once.
C13_Witness ==
  /\ InLoop
  /\ h.watcher
  /\ h.caught = Err(M_alreadyIssued)
  /\ h.reRead = "ISSUED"
  /\ ~h.redeemed
  /\ store[quote].minted = 1
  /\ pc = "exited"


\* C14: the core does not write the quote.  A step of the wait loop or of
\* check-invoice (a state read, a redeem call, a re-read, a sleep, the exit)
\* leaves every quote record as it was (state, request, amount), with one
\* exception: a redeem call that returns takes this run's quote from PAID to
\* ISSUED, and changes nothing else.
C14_CoreStep ==
  (run' = run /\ pc' # pc /\ pc \in AttemptPcs \cup {"inv_done"}) =>
    \/ store' = store
    \/ /\ pc \in {"inv_redeem", "chk_redeem"}
       /\ ~h.redeemed /\ h'.redeemed
       /\ ~error'.thrown
       /\ store[quote].state = "PAID"
       /\ store' = [store EXCEPT ![quote].state = "ISSUED",
                                 ![quote].minted = @ + 1]

C14_FailedRedeemStep ==
  (pc \in {"inv_redeem", "chk_redeem"} /\ pc' # pc /\ h'.caught.thrown) =>
    store' = store

C14_CoreNeverWrites == [][C14_CoreStep /\ C14_FailedRedeemStep]_vars

\* A wait loop that polled an unpaid quote twice and timed out has left the
\* record as createMintQuote wrote it.
C14_Witness ==
  /\ InLoop
  /\ h.redeemCalls = 2
  /\ h.sleeps = 2
  /\ printed = "timeout"
  /\ pc = "exited"
  /\ store[quote] = [state |-> "UNPAID", request |-> RequestOf(quote),
                     amount |-> 21, minted |-> 0]


\* C15 (as claimed): whichever way an invoice or check-invoice run ends
\* (success, pending, timeout, fatal redeem error, missing argument, no
\* mint), cleanup() was called before the process exited.
C15_CleanupOnExit ==
  (pc = "exited" /\ exitCode \in {0, 1}) => cleaned.called


\* C16 (as claimed): nothing happens between an iteration's state read and
\* its redeem call: the quote on which the redeem call acts is not ISSUED,
\* as the read just before it found.
C16_NoStepBeforeRedeem ==
  (InLoop /\ pc = "inv_redeem") => store[quote].state # "ISSUED"

\* The redeem call of this iteration was refused although the iteration's
\* read had not found ISSUED: the Watcher redeemed in between.
BeatenToIt ==
  /\ h.firstRead = "other"
  /\ h.iterRedeems = 1
  /\ h.caught = Err(M_alreadyIssued)

\* C16 (amended): the Loop is suspended during the state read, the redeem
\* call and the re-read as well as during the sleep, and the Watcher may
\* redeem the quote between an iteration's read and its redeem call.  The
\* redeem call then mints nothing and changes nothing: it is refused and
\* goes to the re-read, which finds ISSUED and ends the Loop paid.  Tokens
\* are minted once.
C16_RaceState ==
  InLoop =>
    /\ store[quote].minted <= 1
    /\ BeatenToIt =>
          /\ h.watcher
          /\ ~h.redeemed
          /\ store[quote].state = "ISSUED"
          /\ store[quote].minted = 1
          /\ pc \in {"inv_reread"} \cup EndPcs
          /\ pc # "inv_reread" => (h.reRead = "ISSUED" /\ paid)
          /\ pc = "exited" => (printed = "paid" /\ exitCode = 0)

C16_RaceStep ==
  (InLoop /\ pc = "inv_redeem" /\ pc' # pc /\ store[quote].state = "ISSUED") =>
    /\ pc' = "inv_reread"
    /\ store' = store
    /\ ~paid'

C16_WatcherBetweenReadAndRedeem == [](C16_RaceState) /\ [][C16_RaceStep]_vars

\* In the first iteration the read found the quote not issued, the Watcher
\* redeemed it, the redeem call was refused and the Loop ended paid.
C16_Witness ==
  /\ InLoop
  /\ BeatenToIt
  /\ h.sleeps = 0
  /\ h.watcher
  /\ h.reRead = "ISSUED"
  /\ store[quote].minted = 1
  /\ printed = "paid"
  /\ pc = "exited"


\* C17 (as claimed): when the re-read after a duplicate signal throws, the
\* attempt is taken for still pending: the Loop goes on polling,
\* check-invoice reports pending, and no error is reported.
C17_RereadFailureIsPending ==
  h.reRead = "threw" =>
    /\ h.resolved = "pending"
    /\ ~OnFatalPath
    /\ printed # "error"
    /\ pc = "exited" => exitCode = 0

\* C17 (amended): when the re-read after a duplicate signal throws, the run
\* is fatal, in the Loop and in check-invoice alike: the error of the
\* re-read (not the duplicate signal) goes to the outer catch, which prints
\* it, calls cleanup and exits with status 1; no read, redeem call or sleep
\* follows.
C17_FatalState ==
  h.reRead = "threw" =>
    /\ h.resolved = "fatal"
    /\ h.caught.thrown
    /\ error.thrown
    /\ error # h.caught
    /\ error \in ReadResults
    /\ ~paid
    /\ OnFatalPath \/ pc = "exited"
    /\ pc \in {"cleanup_err", "exited"} => printed = "error"
    /\ pc = "exited" => (exitCode = 1 /\ cleaned.called)

C17_FatalStep ==
  (h.reRead = "threw" /\ run' = run) =>
    /\ h'.reads = h.reads
    /\ h'.redeemCalls = h.redeemCalls
    /\ h'.sleeps = h.sleeps
    /\ error' = error
    /\ store' = store \/ pc' = pc

C17_RereadFailureIsFatal == [](C17_FatalState) /\ [][C17_FatalStep]_vars

\* A Loop in its second iteration got a duplicate signal, its re-read threw
\* and the process exited with status 1.
C17_Witness ==
  /\ InLoop
  /\ h.sleeps = 1
  /\ h.caught = Err(M_alreadySpent)
  /\ h.reRead = "threw"
  /\ error = Err(M_networkError)
  /\ pc = "exited"
  /\ exitCode = 1


\* C18: the success report is sound.  The Loop has paid set or has printed
\* the confirmation, and check-invoice has printed it, only if in this
\* invocation a state read returned ISSUED or a redeem call returned; the
\* quote is then ISSUED.  Success is never reported for a quote that is
\* unknown, UNPAID or PAID.
C18_SoundSuccess ==
  quote # NoArg =>
    /\ (paid \/ printed = "paid") =>
          /\ SawIssuedOrRedeemed
          /\ store[quote].state = "ISSUED"
          /\ h.resolved = "success"
    /\ command = "check-invoice" => ~paid
    /\ store[quote].state \in {"NONE", "UNPAID", "PAID"} =>
          (~paid /\ printed # "paid")

\* A Loop whose second redeem call returned has reported the payment.
C18_Witness ==
  /\ InLoop
  /\ h.sleeps = 1
  /\ h.redeemed
  /\ h.firstRead = "other"
  /\ paid
  /\ printed = "paid"
  /\ store[quote].state = "ISSUED"
  /\ pc = "exited"


\* The longest a collaborator call takes.
LongestCall == MaxLatency * LatencyUnit

\* C19 (as claimed): no redeem call is started at or after the deadline.
C19_NoRedeemAfterDeadline ==
  (InLoop /\ pc = "inv_redeem") => now - startTime < timeoutMs

\* C19 (amended): the deadline is tested at the top of an iteration and
\* nowhere else.  The state read of an iteration starts before the
\* deadline; its redeem call starts later by the time the read took, which
\* may be at or after the deadline.  Inside an iteration the Loop is left
\* only paid or through the outer catch.  After a pending attempt the Loop
\* sleeps pollInterval in full.  A run that timed out ended at or after the
\* deadline and before the deadline plus pollInterval plus the time of the
\* calls of its last iteration.  A run with timeoutMs > 0 makes at least
\* one state read before it ends.
C19_DeadlineState ==
  InLoop =>
    /\ pc = "inv_read" => now - startTime < timeoutMs
    /\ pc = "inv_redeem" => now - startTime < timeoutMs + LongestCall
    /\ (timeoutMs > 0 /\ pc \in {"inv_done", "cleanup_ok", "cleanup_err", "exited"}) =>
          h.reads >= 1
    /\ printed = "timeout" =>
          /\ now - startTime >= timeoutMs
          /\ now - startTime < timeoutMs + pollInterval + 3 * LongestCall
          /\ h.sleeps >= 1

C19_DeadlineStep ==
  (InLoop /\ pc' # pc) =>
    /\ pc = "inv_while" =>
          pc' = IF now - startTime < timeoutMs THEN "inv_read" ELSE "inv_done"
    /\ pc \in {"inv_read", "inv_redeem", "inv_reread"} =>
          /\ pc' = "inv_done" => paid'
          /\ pc' \in {"inv_redeem", "inv_reread", "inv_sleep", "inv_done",
                      "outer_catch"}
    /\ pc = "inv_sleep" =>
          (pc' = "inv_while" /\ now' = now + pollInterval)

C19_DeadlineAtTopOnly == [](C19_DeadlineState) /\ [][C19_DeadlineStep]_vars

\* The second iteration began a second before the deadline of 7000 ms; its
\* state read took that second, so its redeem call started at the deadline.
C19_Witness ==
  /\ InLoop
  /\ timeoutMs = 7000
  /\ pc = "inv_redeem"
  /\ h.sleeps = 1
  /\ now - startTime = 7 * LatencyUnit
  /\ now - startTime >= timeoutMs


\* The text of a message contains a duplicate pattern of the running
\* command, and a pending pattern.
HasDuplicatePattern(m) ==
  \/ Includes(m, P_already_issued)
  \/ Includes(m, P_already_spent)
  \/ command = "invoice" /\ Includes(m, P_Tokens_already_minted)

HasPendingPattern(m) ==
  \/ Includes(m, P_PENDING)
  \/ Includes(m, P_not_paid)
  \/ Includes(m, P_UNPAID)

\* The attempt's redeem call failed with a message that matches both.
CaughtBoth ==
  /\ RedeemFailed
  /\ quote # NoArg
  /\ HasDuplicatePattern(ErrorMsg(h.caught))
  /\ HasPendingPattern(ErrorMsg(h.caught))

\* C20: the duplicate test comes first.  After a redeem error whose message
\* is both a duplicate and a pending signal the re-read is made; when it
\* returns ISSUED the attempt is a success although the message says
\* pending, when it returns another state the attempt is pending; the
\* message never makes the run fatal, in the Loop or in check-invoice.
C20_DuplicateFirst ==
  (CaughtBoth /\ h.reRead # "threw") =>
    /\ h.reRead = "none" <=> pc \in {"inv_reread", "chk_reread"}
    /\ h.reRead = "none" => h.resolved = "none"
    /\ h.reRead = "ISSUED" => h.resolved = "success"
    /\ h.reRead = "other" => h.resolved = "pending"
    /\ h.resolved # "fatal"
    /\ ~OnFatalPath
    /\ printed # "error"
    /\ pc = "exited" => exitCode = 0

\* The Loop got "PENDING: already issued" for a quote that is not issued:
\* the re-read was made, and the Loop sleeps.
C20_Witness ==
  /\ InLoop
  /\ CaughtBoth
  /\ h.caught = Err(M_pendingAlreadyIssued)
  /\ h.reRead = "other"
  /\ h.resolved = "pending"
  /\ pc = "inv_sleep"

\* ------------------------------------------------------------------- C21
\* A step of the start-up code is a seedGetter call.
SeedGetterCalled == seedLog'.calls = seedLog.calls + 1

\* Whatever seedGetter has returned is what seed.txt decodes to, and
\* seedGetter has written the file at most once.
C21_SeedState ==
  /\ seedLog.writes <= 1
  /\ seedLog.returned.some =>
       /\ seedFile.exists
       /\ seedLog.returned.bytes = FromHex(seedFile.text)

\* seedGetter writes only when there is no seed.txt, and then a 64-byte
\* seed as 128 characters; an existing seed.txt keeps its content; a call
\* that finds seed.txt returns, and returns what the calls before returned.
C21_SeedStep ==
  /\ seedLog'.writes # seedLog.writes =>
       /\ SeedGetterCalled
       /\ ~seedFile.exists
       /\ seedFile'.exists
       /\ Len(seedFile'.text) = 2 * SeedLen
       /\ Len(seedLog'.returned.bytes) = SeedLen
  /\ seedFile.exists => seedFile' = seedFile
  /\ (SeedGetterCalled /\ seedFile.exists) =>
       /\ seedLog'.returned.some
       /\ seedLog.returned.some => seedLog'.returned = seedLog.returned
       /\ boot' = boot

\* C21: over any sequence of runs that do not overlap, seedGetter generates
\* and writes a new 64-byte seed only when seed.txt does not exist; once
\* seed.txt exists its content is never overwritten and every later
\* seedGetter call returns the same seed.
C21_SeedStable == [](C21_SeedState) /\ [][C21_SeedStep]_vars

\* The first run generated the seed and a seedGetter call of the second run
\* has returned it.
C21_Witness ==
  /\ seedLog.writeRun = 1
  /\ seedLog.runs = 2
  /\ seedLog.calls >= 1
  /\ boot = "ready"
  /\ seedLog.returned.some
  /\ seedLog.returned.bytes \in RandomSeeds
  /\ seedFile = File(ToHex(seedLog.returned.bytes))

====
